---- MODULE Spec2Model ----
(***************************************************************************)
(* Model of si5351-experiments.c: the continued-fraction routine           *)
(* rational_approximation and the two-scenario divider search of main.     *)
(*                                                                         *)
(* Number types.                                                           *)
(*  - A natural number of any size is a sequence of limbs in base 2^15,    *)
(*    least significant limb first, with no leading zero limb (zero is     *)
(*    the empty sequence).  TLC's own integers stop at 2^31 - 1, which is  *)
(*    below the range of uint32_t.                                         *)
(*  - uint32_t is such a number reduced modulo 2^32 (U32).                 *)
(*  - double is an exact fraction [n, d] of two such numbers, d > 0.       *)
(*    Arithmetic on it is exact: the rounding of IEEE-754 is not           *)
(*    modelled.                                                            *)
(* C arrays h[0], h[1] are the sequences h[1], h[2].                       *)
(*                                                                         *)
(* Operators take their arguments by value: Val1, Val2 and Val3 bind the   *)
(* value of an expression to a name, so that it is computed once however   *)
(* often the name is used.                                                 *)
(***************************************************************************)
EXTENDS Integers, Sequences, FiniteSets, TLC

Val1(x, F(_)) == CHOOSE r \in {F(v) : v \in {x}} : TRUE

Val2(x, y, F(_, _)) == CHOOSE r \in {F(v, w) : v \in {x}, w \in {y}} : TRUE

Val3(x, y, z, F(_, _, _)) ==
    CHOOSE r \in {F(v, w, u) : v \in {x}, w \in {y}, u \in {z}} : TRUE

(***************************************************************************)
(* Natural numbers of any size                                             *)
(***************************************************************************)
BASE == 2^15

RECURSIVE BInt(_)
BInt(n) == IF n = 0 THEN <<>> ELSE <<n % BASE>> \o BInt(n \div BASE)

RECURSIVE BVal(_)
BVal(x) == IF x = <<>> THEN 0 ELSE x[1] + BASE * BVal(Tail(x))

RECURSIVE BNormR(_)
BNormR(x) == IF x = <<>> THEN <<>>
             ELSE IF x[Len(x)] = 0 THEN BNormR(SubSeq(x, 1, Len(x) - 1)) ELSE x

\* x without its leading zero limbs
BNorm(x) == Val1(x, LAMBDA v : BNormR(v))

RECURSIVE BAddC(_, _, _)
BAddC(x, y, c) ==
    IF x = <<>> /\ y = <<>> THEN (IF c = 0 THEN <<>> ELSE <<c>>)
    ELSE LET s == (IF x = <<>> THEN 0 ELSE x[1]) + (IF y = <<>> THEN 0 ELSE y[1]) + c
         IN <<s % BASE>> \o BAddC(IF x = <<>> THEN <<>> ELSE Tail(x),
                                   IF y = <<>> THEN <<>> ELSE Tail(y), s \div BASE)

BAdd(x, y) == Val2(x, y, LAMBDA v, w : BAddC(v, w, 0))

RECURSIVE BSubB(_, _, _)
BSubB(x, y, c) ==
    IF x = <<>> THEN <<>>
    ELSE LET s == x[1] - (IF y = <<>> THEN 0 ELSE y[1]) - c
         IN <<s % BASE>> \o BSubB(Tail(x), IF y = <<>> THEN <<>> ELSE Tail(y),
                                  IF s < 0 THEN 1 ELSE 0)

\* x - y, for x >= y
BSub(x, y) == Val2(x, y, LAMBDA v, w : BNorm(BSubB(v, w, 0)))

RECURSIVE BCmpAt(_, _, _)
BCmpAt(x, y, i) == IF i = 0 THEN 0
                   ELSE IF x[i] < y[i] THEN -1
                   ELSE IF x[i] > y[i] THEN 1
                   ELSE BCmpAt(x, y, i - 1)

\* -1, 0 or 1 as x < y, x = y or x > y
BCmp(x, y) == Val2(x, y, LAMBDA v, w : IF Len(v) < Len(w) THEN -1
                                        ELSE IF Len(v) > Len(w) THEN 1
                                        ELSE BCmpAt(v, w, Len(v)))

BLess(x, y) == BCmp(x, y) < 0

BLeq(x, y) == BCmp(x, y) <= 0

RECURSIVE BMulC(_, _, _)
BMulC(x, t, c) ==
    IF x = <<>> THEN (IF c = 0 THEN <<>> ELSE <<c>>)
    ELSE LET s == x[1] * t + c
         IN <<s % BASE>> \o BMulC(Tail(x), t, s \div BASE)

\* x * t, for one limb t
BMulS(x, t) == Val2(x, t, LAMBDA v, w : IF w = 0 THEN <<>> ELSE BMulC(v, w, 0))

RECURSIVE BMulR(_, _)
BMulR(x, y) == IF x = <<>> \/ y = <<>> THEN <<>>
               ELSE BAdd(BMulS(x, y[1]), BNorm(<<0>> \o BMulR(x, Tail(y))))

BMul(x, y) == Val2(x, y, LAMBDA v, w : BMulR(v, w))

\* the largest limb t with t * y <= cur, by bisection on its 15 bits
RECURSIVE BDigit(_, _, _, _)
BDigit(cur, y, acc, bit) ==
    IF bit < 0 THEN acc
    ELSE IF BLeq(BMulS(y, acc + 2^bit), cur) THEN BDigit(cur, y, acc + 2^bit, bit - 1)
    ELSE BDigit(cur, y, acc, bit - 1)

\* <<quotient, remainder>> of x by y > 0 (long division, top limb first)
RECURSIVE BDivModR(_, _)
BDivModR(x, y) ==
    IF x = <<>> THEN <<(<<>>), (<<>>)>>
    ELSE Val1(BDivModR(Tail(x), y), LAMBDA hi :
         Val1(BNorm(<<x[1]>> \o hi[2]), LAMBDA cur :
         Val1(IF Len(cur) <= 2 /\ Len(y) <= 2 THEN BVal(cur) \div BVal(y)
              ELSE BDigit(cur, y, 0, 14), LAMBDA t :
         <<BNorm(<<t>> \o hi[1]), BSub(cur, BMulS(y, t))>>)))

BDivMod(x, y) == Val2(x, y, LAMBDA v, w : BDivModR(v, w))

BDiv(x, y) == BDivMod(x, y)[1]

BMod(x, y) == BDivMod(x, y)[2]

(***************************************************************************)
(* uint32_t                                                                *)
(***************************************************************************)
\* 2^32 - 1 = 32767 + 32767 * 2^15 + 3 * 2^30
UINT32_MAX == <<32767, 32767, 3>>

\* reduction modulo 2^32: the low 32 bits
U32(x) == Val1(x, LAMBDA v : IF Len(v) <= 2 THEN v ELSE BNorm(<<v[1], v[2], v[3] % 4>>))

\* m * x1 + x0 as a mathematical integer
MulAdd(m, x1, x0) == BAdd(BMul(m, x1), x0)

\* x - y in uint32_t arithmetic (wraps below zero)
U32Sub(x, y) == Val2(x, y, LAMBDA v, w :
                    IF BLeq(w, v) THEN BSub(v, w)
                    ELSE BSub(BAdd(BAdd(UINT32_MAX, BInt(1)), v), w))

(***************************************************************************)
(* double, as an exact fraction                                            *)
(***************************************************************************)
Dbl(n) == [n |-> BInt(n), d |-> BInt(1)]

DblOf(x) == [n |-> x, d |-> BInt(1)]

DLess(x, y) == Val2(x, y, LAMBDA v, w : BLess(BMul(v.n, w.d), BMul(w.n, v.d)))

DLeq(x, y) == Val2(x, y, LAMBDA v, w : BLeq(BMul(v.n, w.d), BMul(w.n, v.d)))

DMul(x, y) == Val2(x, y, LAMBDA v, w : [n |-> BMul(v.n, w.n), d |-> BMul(v.d, w.d)])

\* x / y for y # 0
DDiv(x, y) == Val2(x, y, LAMBDA v, w : [n |-> BMul(v.n, w.d), d |-> BMul(v.d, w.n)])

DAdd(x, y) == Val2(x, y, LAMBDA v, w :
                  [n |-> BAdd(BMul(v.n, w.d), BMul(w.n, v.d)), d |-> BMul(v.d, w.d)])

\* fabs(x - y)
DAbsDiff(x, y) ==
    Val2(x, y, LAMBDA v, w :
        Val2(BMul(v.n, w.d), BMul(w.n, v.d), LAMBDA l, r :
            [n |-> IF BLeq(r, l) THEN BSub(l, r) ELSE BSub(r, l), d |-> BMul(v.d, w.d)]))

\* modf: the integral part (as a natural number) and the fractional part
ModfInt(x) == Val1(x, LAMBDA v : BDiv(v.n, v.d))

ModfFrac(x) == Val1(x, LAMBDA v : [n |-> BMod(v.n, v.d), d |-> v.d])

(***************************************************************************)
(* Program constants (frequencies in Hz)                                   *)
(***************************************************************************)
MAX_CLOCKS == 3

SI5351_MIN_VCO_FREQ == 600000000

SI5351_MAX_VCO_FREQ == 1000000000

SI5351_MAX_DENOMINATOR == 1048575

SI5351_MIN_CLKIN_FREQ == 10000000

SI5351_MAX_CLKIN_FREQ == 100000000

\* const double epsilon = 1e-5
epsilon == [n |-> BInt(1), d |-> BInt(100000)]

\* the hard ceiling of the expansion loop: for (i = 0; i < 100; ++i)
MAX_STEPS == 100

VARIABLES
    pc,           \* main's position
    argv,         \* the command line after the program name, in Hz
    xtal,         \* double xtal
    xtal_orig,    \* double xtal_orig
    clkin_div,    \* uint8_t clkin_div
    xtal_div,     \* int xtal_div
    clks,         \* double clks[MAX_CLOCKS], as a sequence of length nclks
    r_clk0,       \* double r_clk0
    rdiv,         \* uint8_t rdiv
    output_ms,    \* uint32_t output_ms (first scenario)
    feedback_ms,  \* uint32_t feedback_ms (second scenario)
    out,          \* the plans written to stdout, in order
    err,          \* the lines written to stderr, in order
    status,       \* "running", or the exit status of main
    ra            \* the locals of one call of rational_approximation

vars == <<pc, argv, xtal, xtal_orig, clkin_div, xtal_div, clks, r_clk0, rdiv,
          output_ms, feedback_ms, out, err, status, ra>>

mainvars == <<pc, argv, xtal, xtal_orig, clkin_div, xtal_div, clks, r_clk0, rdiv,
              output_ms, feedback_ms, out, err, status>>

(***************************************************************************)
(* rational_approximation                                                  *)
(***************************************************************************)
\* the locals after the declarations, before the for loop
RAEnter(value, max_denominator) ==
    Val2(value, max_denominator, LAMBDA v, md :
        Val1(ModfFrac(v), LAMBDA f0 :
            [value |-> v, max_denominator |-> md,
             a |-> U32(ModfInt(v)), b |-> BInt(0), c |-> BInt(1),
             f0 |-> f0, f |-> f0, delta |-> f0,
             h |-> <<BInt(1), BInt(0)>>, k |-> <<BInt(0), BInt(1)>>,
             i |-> 0, pc |-> "loop"]))

\* the for loop's condition together with the break on f <= epsilon
RAContinues(s) == Val1(s, LAMBDA v : v.i < MAX_STEPS /\ ~DLeq(v.f, epsilon))

\* the comparison of d with delta the wrong way round
RACloserFlipped(s, hm, km) ==
    /\ km # <<>>
    /\ DLess(s.delta, DAbsDiff([n |-> hm, d |-> km], s.f0))

\* hm / km is closer to f0 than the best so far.  For km = 0 the quotient
\* is inf or NaN and d < delta is false.
RACloser(s, hm, km) ==
    /\ km # <<>>
    /\ DLess(DAbsDiff([n |-> hm, d |-> km], s.f0), s.delta)

\* One pass of the body of the semiconvergent loop, for the value m of the
\* loop variable.  sl = [s, left]: the locals, and whether the loop has
\* been left by its break; a pass after the break changes nothing.
RAPass(sl0, m0) ==
    Val2(sl0, m0, LAMBDA sl, m :
        IF sl.left THEN sl
        ELSE Val2(U32(MulAdd(BInt(m), sl.s.h[2], sl.s.h[1])),
                  U32(MulAdd(BInt(m), sl.s.k[2], sl.s.k[1])), LAMBDA hm, km :
                 IF BLess(sl.s.max_denominator, km) THEN [sl EXCEPT !.left = TRUE]
                 ELSE IF RACloser(sl.s, hm, km)
                 THEN [sl EXCEPT !.s.delta = DAbsDiff([n |-> hm, d |-> km], sl.s.f0),
                                 !.s.b = hm, !.s.c = km]
                 ELSE sl))

\* The passes for m = lo, lo + 1, ..., hi in this order (the first half of
\* the range, then the second half).
RECURSIVE RAPasses(_, _, _)
RAPasses(sl0, lo0, hi0) ==
    Val3(sl0, lo0, hi0, LAMBDA sl, lo, hi :
        IF lo > hi \/ sl.left THEN sl
        ELSE IF lo = hi THEN RAPass(sl, lo)
        ELSE RAPasses(RAPasses(sl, lo, (lo + hi) \div 2), (lo + hi) \div 2 + 1, hi))

\* the semiconvergent loop: for (m = (an + 1) / 2; m <= an; ++m).
\* an is below 100000 here, because f was above epsilon.
RAInner(s, an) == RAPasses([s |-> s, left |-> FALSE], (BVal(an) + 1) \div 2, BVal(an)).s

\* one pass of the for loop's body, taken when RAContinues holds
RAStep(s0) ==
    Val1(s0, LAMBDA s :
        Val1(DDiv(Dbl(1), s.f), LAMBDA inv :
            Val1(U32(ModfInt(inv)), LAMBDA an :
                [RAInner(s, an)
                     EXCEPT !.f = ModfFrac(inv),
                            !.h = <<s.h[2], U32(MulAdd(an, s.h[2], s.h[1]))>>,
                            !.k = <<s.k[2], U32(MulAdd(an, s.k[2], s.k[1]))>>,
                            !.i = s.i + 1])))

\* The passes i = lo, ..., hi of the for loop, in this order.  A pass for
\* which RAContinues fails is the loop's end: nothing changes from there.
RECURSIVE RARunRange(_, _, _)
RARunRange(s0, lo0, hi0) ==
    Val3(s0, lo0, hi0, LAMBDA s, lo, hi :
        IF lo > hi \/ ~RAContinues(s) THEN s
        ELSE IF lo = hi THEN RAStep(s)
        ELSE RARunRange(RARunRange(s, lo, (lo + hi) \div 2), (lo + hi) \div 2 + 1, hi))

\* for (int i = 0; i < 100; ++i)
RARun(s) == RARunRange(s, 0, MAX_STEPS - 1)

\* the triple (*a, *b, *c) the call leaves behind
rational_approximation(value, max_denominator) ==
    Val1(RARun(RAEnter(value, max_denominator)), LAMBDA s :
        [a |-> s.a, b |-> s.b, c |-> s.c])

(***************************************************************************)
(* main: inputs                                                            *)
(***************************************************************************)
\* reference frequencies tried: multiples of 15 MHz, the ends of the legal
\* range and of the 10-40 MHz band, the values just outside the range, and
\* 25 MHz
MaxXtalSteps == 6

XtalStepHz == 15 * 1000000

XtalChoices == {n * XtalStepHz : n \in 1..MaxXtalSteps}
               \cup {9999000, 10000000, 25000000, 40000000, 100000000, 100000001}

\* primary targets tried with every reference
ClockChoices == { <<14200000>>, <<10000000>>, <<200000000>>, <<500000>>, <<3000>> }

\* command lines tried: the product of the two sets, a primary target that
\* takes 8 doublings to reach 1 MHz, lists with additional clocks, and a
\* list that is too long
ArgvChoices == {<<x>> \o cl : x \in XtalChoices, cl \in ClockChoices}
               \cup { <<25000000, 6250>>,
                      <<25000000, 14200000, 10000000>>,
                      <<25000000, 10000000, 200000000, 1000000>>,
                      <<25000000, 14200000, 10000000, 10000000, 10000000>> }

CLOCK_TOLERANCE == [n |-> BInt(1), d |-> BInt(100000000)]

\* clk_diff <= -CLOCK_TOLERANCE || clk_diff >= CLOCK_TOLERANCE
Deviates(actual, wanted) == DLeq(CLOCK_TOLERANCE, DAbsDiff(actual, wanted))

\* a + (double) b / (double) c
RatioOf(r) == Val1(r, LAMBDA v : DAdd(DblOf(v.a), [n |-> v.b, d |-> v.c]))

\* the "-> integer" / "-> even integer" suffix of a report line
IsInteger(r) == Val1(r, LAMBDA v :
                    IF v.b # <<>> THEN ""
                    ELSE IF BMod(v.a, BInt(2)) # <<>> THEN "integer" ELSE "even integer")

\* the loop over the additional clocks, nclk = 1 .. nclks - 1, of either
\* scenario: the report lines of the clocks that are not skipped
RECURSIVE AdditionalClocks(_, _)
AdditionalClocks(pll0, nclk0) ==
    Val2(pll0, nclk0, LAMBDA actual_pll_freq, nclk :
        IF nclk >= Len(clks) THEN <<>>
        ELSE Val1(rational_approximation(DDiv(actual_pll_freq, clks[nclk + 1]),
                                         BInt(SI5351_MAX_DENOMINATOR)), LAMBDA r :
             Val1(RatioOf(r), LAMBDA clk_actual_ratio :
                 IF DLess(clk_actual_ratio, Dbl(4)) \/ DLess(Dbl(900), clk_actual_ratio)
                 THEN AdditionalClocks(actual_pll_freq, nclk + 1)
                 ELSE Val1(DDiv(actual_pll_freq, clk_actual_ratio), LAMBDA actual_clk :
                          <<[nclk |-> nclk, a |-> r.a, b |-> r.b, c |-> r.c,
                             actual_clk |-> actual_clk, is_integer |-> IsInteger(r),
                             deviates |-> Deviates(actual_clk, clks[nclk + 1])]>>
                          \o AdditionalClocks(actual_pll_freq, nclk + 1)))))

RAIdle == [pc |-> "idle"]

Init ==
    /\ pc = "start"
    /\ argv \in ArgvChoices
    /\ xtal = Dbl(0)
    /\ xtal_orig = Dbl(0)
    /\ clkin_div = 0
    /\ xtal_div = 0
    /\ clks = <<>>
    /\ r_clk0 = Dbl(0)
    /\ rdiv = 0
    /\ output_ms = BInt(0)
    /\ feedback_ms = BInt(0)
    /\ out = <<>>
    /\ err = <<>>
    /\ status = "running"
    /\ ra = RAIdle

Exit(code) == /\ pc' = "exit"
              /\ status' = code

(***************************************************************************)
(* main: argument parsing and input conditioning                           *)
(***************************************************************************)
\* argc is Len(argv) + 1
ParseArgs ==
    /\ pc = "start"
    /\ IF Len(argv) + 1 > MAX_CLOCKS + 2
       THEN /\ Exit("EXIT_FAILURE")
            /\ err' = Append(err, [msg |-> "Too many arguments", at |-> BInt(0)])
            /\ UNCHANGED <<xtal, clks>>
       ELSE /\ xtal' = Dbl(argv[1])
            /\ clks' = [i \in 1..(Len(argv) - 1) |-> Dbl(argv[i + 1])]
            /\ pc' = "check_clkin"
            /\ UNCHANGED <<err, status>>
    /\ UNCHANGED <<argv, xtal_orig, clkin_div, xtal_div, r_clk0, rdiv, output_ms,
                   feedback_ms, out, ra>>

\* a range check that turns away the upper end of the range as well
ClkinOutOfRangeExclusive(x) ==
    DLess(x, Dbl(SI5351_MIN_CLKIN_FREQ)) \/ DLeq(Dbl(SI5351_MAX_CLKIN_FREQ), x)

\* xtal < SI5351_MIN_CLKIN_FREQ || xtal > SI5351_MAX_CLKIN_FREQ
ClkinOutOfRange(x) ==
    DLess(x, Dbl(SI5351_MIN_CLKIN_FREQ)) \/ DLess(Dbl(SI5351_MAX_CLKIN_FREQ), x)

\* make sure xtal (CLKIN) is in the allowed 10-100MHz range
CheckClkin ==
    /\ pc = "check_clkin"
    /\ IF ClkinOutOfRange(xtal)
       THEN /\ Exit("EXIT_FAILURE")
            /\ err' = Append(err, [msg |-> "XTAL reference (CKLIN) is out of range", at |-> BInt(0)])
            /\ UNCHANGED <<xtal_orig, clkin_div>>
       ELSE /\ xtal_orig' = xtal
            /\ clkin_div' = 0
            /\ pc' = "clkin_div"
            /\ UNCHANGED <<err, status>>
    /\ UNCHANGED <<argv, xtal, xtal_div, clks, r_clk0, rdiv, output_ms, feedback_ms,
                   out, ra>>

\* a loop condition that lets the reference be halved once only
ClkinDivContinuesOnce == DLess(Dbl(40000000), xtal) /\ clkin_div < 1

\* xtal > 40e6 && clkin_div <= 3
ClkinDivContinues == DLess(Dbl(40000000), xtal) /\ clkin_div <= 3

\* while (xtal > 40e6 && clkin_div <= 3): one pass of the body
ClkinDivStep ==
    /\ pc = "clkin_div"
    /\ ClkinDivContinues
    /\ xtal' = DDiv(xtal, Dbl(2))
    /\ clkin_div' = clkin_div + 1
    /\ UNCHANGED <<pc, argv, xtal_orig, xtal_div, clks, r_clk0, rdiv, output_ms,
                   feedback_ms, out, err, status, ra>>

\* the loop is left: xtal_div, r_clk0 and rdiv are set up
ClkinDivDone ==
    /\ pc = "clkin_div"
    /\ ~ClkinDivContinues
    /\ xtal_div' = 2^clkin_div
    /\ r_clk0' = clks[1]
    /\ rdiv' = 0
    /\ pc' = "rdiv"
    /\ UNCHANGED <<argv, xtal, xtal_orig, clkin_div, clks, output_ms, feedback_ms,
                   out, err, status, ra>>

\* while (r_clk0 < 1e6 && rdiv <= 7): one pass of the body
RDivStep ==
    /\ pc = "rdiv"
    /\ DLess(r_clk0, Dbl(1000000)) /\ rdiv <= 7
    /\ r_clk0' = DMul(r_clk0, Dbl(2))
    /\ rdiv' = rdiv + 1
    /\ UNCHANGED <<pc, argv, xtal, xtal_orig, clkin_div, xtal_div, clks, output_ms,
                   feedback_ms, out, err, status, ra>>

\* the loop is left: the run fails if r_clk0 is still below 1 MHz
RDivDone ==
    /\ pc = "rdiv"
    /\ ~(DLess(r_clk0, Dbl(1000000)) /\ rdiv <= 7)
    /\ IF DLess(r_clk0, Dbl(1000000))
       THEN /\ Exit("EXIT_FAILURE")
            /\ err' = Append(err, [msg |-> "requested clock is too low", at |-> BInt(0)])
       ELSE /\ pc' = "scenA_init"
            /\ UNCHANGED <<err, status>>
    /\ UNCHANGED <<argv, xtal, xtal_orig, clkin_div, xtal_div, clks, r_clk0, rdiv,
                   output_ms, feedback_ms, out, ra>>

(***************************************************************************)
(* main: first scenario - N-frac for feedback MS and even integer for      *)
(* output MS                                                               *)
(***************************************************************************)
\* output_ms < 4 || output_ms > 900
OutputMsInvalid(o) == BLess(o, BInt(4)) \/ BLess(BInt(900), o)

\* choose an even integer for the output MS
ScenAInit ==
    /\ pc = "scenA_init"
    /\ \E t \in {U32(ModfInt(DDiv(Dbl(SI5351_MAX_VCO_FREQ), r_clk0)))} :
       \E o \in {U32Sub(t, BMod(t, BInt(2)))} :
          /\ output_ms' = o
          /\ IF OutputMsInvalid(o)
             THEN /\ Exit("EXIT_FAILURE")
                  /\ err' = Append(err, [msg |-> "invalid output MS", at |-> o])
             ELSE /\ pc' = "scenA"
                  /\ UNCHANGED <<err, status>>
    /\ UNCHANGED <<argv, xtal, xtal_orig, clkin_div, xtal_div, clks, r_clk0, rdiv,
                   feedback_ms, out, ra>>

\* double f_vco = r_clk0 * output_ms
FVcoA == DMul(r_clk0, DblOf(output_ms))

\* if (output_ms < 4 || f_vco < SI5351_MIN_VCO_FREQ) break
ScenALeaves == BLess(output_ms, BInt(4)) \/ DLess(FVcoA, Dbl(SI5351_MIN_VCO_FREQ))

\* a check with the upper end of the band off by one
FeedbackMsInvalidUpTo91(fb) == DLess(fb, Dbl(15)) \/ DLess(Dbl(91), fb)

\* if (feedback_ms < 15 || feedback_ms > 90)
FeedbackMsInvalid(fb) == DLess(fb, Dbl(15)) \/ DLess(Dbl(90), fb)

\* a decrement of 1 in place of 2
NextCandidateByOne(o) == U32Sub(o, BInt(1))

\* output_ms -= 2 (and feedback_ms -= 2 in the second scenario)
NextCandidate(o) == U32Sub(o, BInt(2))

ScenABreak ==
    /\ pc = "scenA"
    /\ ScenALeaves
    /\ pc' = "scenB_init"
    /\ UNCHANGED <<argv, xtal, xtal_orig, clkin_div, xtal_div, clks, r_clk0, rdiv,
                   output_ms, feedback_ms, out, err, status, ra>>

ScenAReject ==
    /\ pc = "scenA"
    /\ ~ScenALeaves
    /\ FeedbackMsInvalid(DDiv(FVcoA, xtal))
    /\ err' = Append(err, [msg |-> "invalid feedback MS", at |-> output_ms])
    /\ output_ms' = NextCandidate(output_ms)
    /\ UNCHANGED <<pc, argv, xtal, xtal_orig, clkin_div, xtal_div, clks, r_clk0, rdiv,
                   feedback_ms, out, status, ra>>

\* the plan of one candidate of the first scenario
PlanA ==
    Val2(FVcoA, DDiv(FVcoA, xtal), LAMBDA f_vco, fb :
        Val1(rational_approximation(fb, BInt(SI5351_MAX_DENOMINATOR)), LAMBDA r :
            Val1(DMul(xtal, RatioOf(r)), LAMBDA actual_pll_freq :
                Val1(DDiv(DDiv(actual_pll_freq, DblOf(output_ms)), Dbl(2^rdiv)),
                     LAMBDA actual_clk0 :
                    [scenario |-> "A", divider |-> output_ms, f_vco |-> f_vco,
                     ideal |-> fb, a |-> r.a, b |-> r.b, c |-> r.c,
                     is_integer |-> IsInteger(r),
                     actual_pll_freq |-> actual_pll_freq, actual_clk0 |-> actual_clk0,
                     rdiv |-> rdiv, deviates |-> Deviates(actual_clk0, clks[1]),
                     clocks |-> AdditionalClocks(actual_pll_freq, 1)]))))

ScenAEmit ==
    /\ pc = "scenA"
    /\ ~ScenALeaves
    /\ ~FeedbackMsInvalid(DDiv(FVcoA, xtal))
    /\ out' = Append(out, PlanA)
    /\ output_ms' = NextCandidate(output_ms)
    /\ UNCHANGED <<pc, argv, xtal, xtal_orig, clkin_div, xtal_div, clks, r_clk0, rdiv,
                   feedback_ms, err, status, ra>>

(***************************************************************************)
(* main: second scenario - even integer for feedback MS and N-frac for     *)
(* output MS                                                               *)
(***************************************************************************)
\* choose an even integer for the feedback MS
ScenBInit ==
    /\ pc = "scenB_init"
    /\ \E t \in {U32(ModfInt(DDiv(Dbl(SI5351_MAX_VCO_FREQ), xtal)))} :
       \E fb \in {U32Sub(t, BMod(t, BInt(2)))} :
          IF BLess(fb, BInt(16))
          THEN /\ feedback_ms' = fb
               /\ Exit("EXIT_FAILURE")
               /\ err' = Append(err, [msg |-> "invalid feedback MS", at |-> fb])
          ELSE IF BLess(BInt(90), fb)
          THEN /\ feedback_ms' = BInt(90)
               /\ IF DLess(DMul(xtal, Dbl(90)), Dbl(SI5351_MIN_VCO_FREQ))
                  THEN /\ Exit("EXIT_FAILURE")
                       /\ err' = Append(err, [msg |-> "invalid feedback MS", at |-> BInt(90)])
                  ELSE /\ pc' = "scenB"
                       /\ UNCHANGED <<err, status>>
          ELSE /\ feedback_ms' = fb
               /\ pc' = "scenB"
               /\ UNCHANGED <<err, status>>
    /\ UNCHANGED <<argv, xtal, xtal_orig, clkin_div, xtal_div, clks, r_clk0, rdiv,
                   output_ms, out, ra>>

\* double f_vco = xtal * feedback_ms
FVcoB == DMul(xtal, DblOf(feedback_ms))

\* if (feedback_ms < 16 || f_vco < SI5351_MIN_VCO_FREQ) break
ScenBLeaves == BLess(feedback_ms, BInt(16)) \/ DLess(FVcoB, Dbl(SI5351_MIN_VCO_FREQ))

\* the loop is left and main returns EXIT_SUCCESS
ScenBBreak ==
    /\ pc = "scenB"
    /\ ScenBLeaves
    /\ Exit("EXIT_SUCCESS")
    /\ UNCHANGED <<argv, xtal, xtal_orig, clkin_div, xtal_div, clks, r_clk0, rdiv,
                   output_ms, feedback_ms, out, err, ra>>

\* the plan of one candidate of the second scenario
PlanB ==
    Val2(FVcoB, DDiv(FVcoB, r_clk0), LAMBDA f_vco, o :
        Val1(rational_approximation(o, BInt(SI5351_MAX_DENOMINATOR)), LAMBDA r :
            Val1(DMul(xtal, DblOf(feedback_ms)), LAMBDA actual_pll_freq :
                Val1(DDiv(DDiv(actual_pll_freq, RatioOf(r)), Dbl(2^rdiv)),
                     LAMBDA actual_clk0 :
                    [scenario |-> "B", divider |-> feedback_ms, f_vco |-> f_vco,
                     ideal |-> o, a |-> r.a, b |-> r.b, c |-> r.c,
                     is_integer |-> IsInteger(r),
                     actual_pll_freq |-> actual_pll_freq, actual_clk0 |-> actual_clk0,
                     rdiv |-> rdiv, deviates |-> Deviates(actual_clk0, clks[1]),
                     clocks |-> AdditionalClocks(actual_pll_freq, 1)]))))

ScenBEmit ==
    /\ pc = "scenB"
    /\ ~ScenBLeaves
    /\ out' = Append(out, PlanB)
    /\ feedback_ms' = NextCandidate(feedback_ms)
    /\ UNCHANGED <<pc, argv, xtal, xtal_orig, clkin_div, xtal_div, clks, r_clk0, rdiv,
                   output_ms, err, status, ra>>

Next ==
    \/ ParseArgs
    \/ CheckClkin
    \/ ClkinDivStep
    \/ ClkinDivDone
    \/ RDivStep
    \/ RDivDone
    \/ ScenAInit
    \/ ScenABreak
    \/ ScenAReject
    \/ ScenAEmit
    \/ ScenBInit
    \/ ScenBBreak
    \/ ScenBEmit

Spec == Init /\ [][Next]_vars

\* main is one sequential thread: a step that can be taken is taken
FairSpec == Spec /\ WF_vars(Next)

(***************************************************************************)
(* rational_approximation on its own: the call is entered with a value    *)
(* and a denominator bound, and the for loop is taken one pass at a time.  *)
(***************************************************************************)
\* the value of the continued fraction [0; t[1], t[2], ...]
RECURSIVE CFValue(_)
CFValue(t) == IF t = <<>> THEN Dbl(0)
              ELSE DDiv(Dbl(1), DAdd(Dbl(t[1]), CFValue(Tail(t))))

\* the partial quotients of the fractional parts tried: every sequence of
\* at most MaxLen terms in 1..MaxTerm, and three longer or larger ones
MaxTerm == 3

MaxLen == 3

RATerms == UNION {[1..n -> 1..MaxTerm] : n \in 0..MaxLen}
           \cup {<<1, 9999999>>, <<200000>>, <<100, 100, 100, 100, 100>>}

RAValues == {DAdd(Dbl(16), CFValue(t)) : t \in RATerms}

RADenominators == {1, 7, SI5351_MAX_DENOMINATOR}

InitRA ==
    /\ ra \in {RAEnter(v, BInt(md)) : v \in RAValues, md \in RADenominators}
    /\ pc = "idle"
    /\ argv = <<>>
    /\ xtal = Dbl(0)
    /\ xtal_orig = Dbl(0)
    /\ clkin_div = 0
    /\ xtal_div = 0
    /\ clks = <<>>
    /\ r_clk0 = Dbl(0)
    /\ rdiv = 0
    /\ output_ms = BInt(0)
    /\ feedback_ms = BInt(0)
    /\ out = <<>>
    /\ err = <<>>
    /\ status = "running"

RAIterate ==
    /\ ra.pc = "loop"
    /\ RAContinues(ra)
    /\ ra' = RAStep(ra)
    /\ UNCHANGED mainvars

RAReturn ==
    /\ ra.pc = "loop"
    /\ ~RAContinues(ra)
    /\ ra' = [ra EXCEPT !.pc = "returned"]
    /\ UNCHANGED mainvars

NextRA ==
    \/ RAIterate
    \/ RAReturn

SpecRA == InitRA /\ [][NextRA]_vars

(***************************************************************************)
(* Claims about rational_approximation (checked under SpecRA)              *)
(***************************************************************************)
RAReturned == ra.pc = "returned"

\* C1: the triple (a, b, c) that rational_approximation returns satisfies
\* the Ratio invariant: c <= max_denominator, and either b = 0 and c = 1, or
\* 0 < b < c (b / c is never 1).
C1_RatioInvariant ==
    RAReturned =>
        /\ BLeq(ra.c, ra.max_denominator)
        /\ \/ ra.b = BInt(0) /\ ra.c = BInt(1)
           \/ BLess(BInt(0), ra.b) /\ BLess(ra.b, ra.c)

\* The candidates of the continued-fraction expansion of f from pass i on,
\* with the convergent pairs h and k as mathematical integers: hm / km for
\* m in (an + 1) / 2 .. an with km <= max_denominator.  TRUE when none of
\* them is closer to s.f0 than s.b / s.c.
RECURSIVE NoCloserCandidate(_, _, _, _, _)
NoCloserCandidate(s, f, h, k, i) ==
    IF i >= MAX_STEPS \/ f.n = <<>> THEN TRUE
    ELSE LET inv == DDiv(Dbl(1), f)
             an  == ModfInt(inv)
             lo  == BDiv(BAdd(an, BInt(1)), BInt(2))
             top == IF BLess(s.max_denominator, k[1]) THEN BInt(0)
                    ELSE BDiv(BSub(s.max_denominator, k[1]), k[2])
             hi  == IF BLess(top, an) THEN top ELSE an
             got == DAbsDiff([n |-> s.b, d |-> s.c], s.f0)
         IN /\ BLeq(lo, hi) =>
                   \A m \in BVal(lo)..BVal(hi) :
                       DLeq(got, DAbsDiff([n |-> MulAdd(BInt(m), h[2], h[1]),
                                           d |-> MulAdd(BInt(m), k[2], k[1])], s.f0))
            /\ NoCloserCandidate(s, ModfFrac(inv),
                                 <<h[2], MulAdd(an, h[2], h[1])>>,
                                 <<k[2], MulAdd(an, k[2], k[1])>>, i + 1)

\* C2: the returned b / c is at least as close to the fractional part of
\* the value as every candidate (convergent or semiconvergent with m in
\* (an + 1) / 2 .. an and denominator <= max_denominator) that the
\* continued-fraction expansion reaches within 100 passes, also when a
\* remainder is at or below 1e-5.
C2_BestCandidate ==
    RAReturned =>
        NoCloserCandidate(ra, ra.f0, <<BInt(1), BInt(0)>>, <<BInt(0), BInt(1)>>, 0)

\* the values of m for which the semiconvergent loop of the coming pass
\* computes hm and km: from (an + 1) / 2 up to the first m whose km, as
\* stored in uint32_t, is above max_denominator
RAComputed(s, an) ==
    {m \in ((BVal(an) + 1) \div 2)..BVal(an) :
        \A m2 \in ((BVal(an) + 1) \div 2)..(m - 1) :
            ~BLess(s.max_denominator, U32(MulAdd(BInt(m2), s.k[2], s.k[1])))}

\* C9: none of the uint32_t quantities hm, km, hn, kn that a pass of the
\* expansion computes exceeds 2^32 - 1 as a mathematical integer.
C9_NoWrapAround ==
    (ra.pc = "loop" /\ RAContinues(ra)) =>
        LET an == U32(ModfInt(DDiv(Dbl(1), ra.f)))
        IN /\ BLeq(MulAdd(an, ra.h[2], ra.h[1]), UINT32_MAX)
           /\ BLeq(MulAdd(an, ra.k[2], ra.k[1]), UINT32_MAX)
           /\ \A m \in RAComputed(ra, an) :
                  /\ BLeq(MulAdd(BInt(m), ra.h[2], ra.h[1]), UINT32_MAX)
                  /\ BLeq(MulAdd(BInt(m), ra.k[2], ra.k[1]), UINT32_MAX)

(***************************************************************************)
(* Claims about main (checked under Spec and FairSpec)                     *)
(***************************************************************************)
DEq(x, y) == ~DLess(x, y) /\ ~DLess(y, x)

PlansOf(scenario) == {i \in 1..Len(out) : out[i].scenario = scenario}

Logged(msg) == {i \in 1..Len(err) : err[i].msg = msg}

PastConditioning == pc \in {"scenA_init", "scenA", "scenB_init", "scenB"}

\* C3: in every run that gets past input conditioning the R-divider
\* exponent rdiv is in 0..7 and the conditioned primary target is at least
\* 1 MHz; a target that 7 doublings do not bring to 1 MHz fails the run and
\* no plan is emitted.
C3_RDivAtMost7 ==
    /\ PastConditioning => rdiv \in 0..7 /\ ~DLess(r_clk0, Dbl(1000000))
    /\ out # <<>> => \A i \in 1..Len(out) : out[i].rdiv \in 0..7

\* C4: a run is aborted by the reference check, with failure status and
\* before any pre-division or plan, if and only if the raw reference is
\* below 10 MHz or above 100 MHz; exactly 10 MHz and exactly 100 MHz pass.
C4_ClkinValidation ==
    (Len(argv) + 1 <= 5 /\ pc \notin {"start", "check_clkin"}) =>
        LET rejected == Logged("XTAL reference (CKLIN) is out of range") # {}
        IN /\ rejected <=> (argv[1] < 10000000 \/ argv[1] > 100000000)
           /\ rejected => /\ pc = "exit"
                          /\ status = "EXIT_FAILURE"
                          /\ out = <<>>
                          /\ clkin_div = 0
                          /\ DEq(xtal, Dbl(argv[1]))
           /\ ~rejected => DEq(xtal_orig, Dbl(argv[1]))

\* a reference of exactly 100 MHz has passed the check
C4_Accepted100MHz == pc = "clkin_div" /\ argv[1] = 100000000 /\ err = <<>>

\* C5: in the first scenario the output-divider candidates are even and go
\* down by exactly 2 per pass without wrapping below zero, after an emitted
\* plan as after a rejected candidate; a plan is emitted only for a
\* candidate whose VCO is at least 600 MHz; the candidate the loop stops at
\* has a VCO below 600 MHz; and the loop is left after finitely many passes.
C5_ScenarioALoop ==
    /\ [](pc = "scenA" => BMod(output_ms, BInt(2)) = <<>>)
    /\ [][(pc = "scenA" /\ pc' = "scenA") =>
              /\ BLeq(BInt(2), output_ms)
              /\ BAdd(output_ms', BInt(2)) = output_ms
              /\ Len(out') + Len(err') = Len(out) + Len(err) + 1]_vars
    /\ [](\A i \in PlansOf("A") :
              ~DLess(DMul(r_clk0, DblOf(out[i].divider)), Dbl(600000000)))
    /\ []((pc \in {"scenB_init", "scenB"} \/ status = "EXIT_SUCCESS") =>
              DLess(DMul(r_clk0, DblOf(output_ms)), Dbl(600000000)))
    /\ (pc = "scenA") ~> (pc # "scenA")

\* the first scenario has emitted a plan, rejected a candidate, and stopped
C5_LoopRan ==
    /\ pc = "scenB_init"
    /\ PlansOf("A") # {}
    /\ Logged("invalid feedback MS") # {}

C6Run == argv = <<25000000, 14200000>>

\* C6: for a 25 MHz reference and the single target 14.2 MHz no pre-division
\* is applied, the first scenario starts at output divider 70, and it emits
\* a plan (the first one: feedback ratio 39 + 19/25, VCO 994 MHz) whose VCO
\* is in 600..1000 MHz and whose clock 0 is 14.2 MHz within the tolerance.
C6_EndToEnd ==
    C6Run =>
        /\ clkin_div = 0 /\ rdiv = 0
        /\ PastConditioning => DEq(xtal, Dbl(25000000)) /\ DEq(r_clk0, Dbl(14200000))
        /\ (pc = "scenA" /\ out = <<>>) => output_ms = BInt(70)
        /\ pc \in {"scenB_init", "scenB", "exit"} => out # <<>>
        /\ out # <<>> =>
               /\ out[1].scenario = "A"
               /\ out[1].divider = BInt(70)
               /\ DEq(out[1].f_vco, Dbl(994000000))
               /\ ~DLess(out[1].f_vco, Dbl(600000000))
               /\ ~DLess(Dbl(1000000000), out[1].f_vco)
               /\ <<out[1].a, out[1].b, out[1].c>> = <<BInt(39), BInt(19), BInt(25)>>
               /\ DEq(out[1].actual_clk0, Dbl(14200000))
               /\ ~out[1].deviates

\* the run of C6 has emitted its first plan
C6_FirstPlan == C6Run /\ Len(out) = 1

\* the feedback ratio VCO / conditioned reference of output divider o
FeedbackOf(o) == DDiv(DMul(r_clk0, DblOf(o)), xtal)

\* the first scenario's feedback band with the lower end lo: every plan has
\* its ideal ratio, its whole part and its ratio a + b/c in lo..90, and
\* every candidate logged as rejected is outside lo..90 and has no plan
FeedbackBand(lo) ==
    pc \in {"scenA", "scenB_init", "scenB"} =>
        /\ \A i \in PlansOf("A") :
               /\ ~DLess(out[i].ideal, Dbl(lo))
               /\ ~DLess(Dbl(90), out[i].ideal)
               /\ DEq(out[i].ideal, FeedbackOf(out[i].divider))
               /\ BLeq(BInt(lo), out[i].a)
               /\ ~DLess(Dbl(90), RatioOf(out[i]))
        /\ \A j \in Logged("invalid feedback MS") :
               /\ \/ DLess(FeedbackOf(err[j].at), Dbl(lo))
                  \/ DLess(Dbl(90), FeedbackOf(err[j].at))
               /\ \A i \in PlansOf("A") : out[i].divider # err[j].at

\* C7 (as stated): the first scenario emits a plan only for a feedback ratio
\* in the band 16 to 90 and logs every other candidate as rejected; the
\* whole part a of every plan is at least 16 and a + b/c is at most 90.
C7_FeedbackBand16 == FeedbackBand(16)

\* C7 (amended): the first scenario emits a plan only for a feedback ratio
\* in the band 15 to 90 and logs every other candidate as rejected; the
\* whole part a of every plan is at least 15 and a + b/c is at most 90.
C7_FeedbackBand15 == FeedbackBand(15)

\* a plan of the first scenario with whole part 15
C7_PlanWithA15 == \E i \in PlansOf("A") : out[i].a = BInt(15)

\* C8: the output divider a + b/c of the primary clock of every plan of the
\* second scenario, and the ratio VCO / conditioned primary target it
\* approximates, is in the band 4 to 900.
C8_OutputBandB ==
    \A i \in PlansOf("B") :
        /\ ~DLess(out[i].ideal, Dbl(4)) /\ ~DLess(Dbl(900), out[i].ideal)
        /\ ~DLess(RatioOf(out[i]), Dbl(4)) /\ ~DLess(Dbl(900), RatioOf(out[i]))

\* the run has ended in one of the fatal branches of the second scenario
ScenBFatal ==
    /\ pc = "exit"
    /\ status = "EXIT_FAILURE"
    /\ err # <<>>
    /\ err[Len(err)].msg = "invalid feedback MS"

\* C10: once the reference has passed validation the conditioned reference
\* is in 10..40 MHz with at most 3 halvings; the fatal branches of the
\* second scenario are never taken; the second scenario starts from an even
\* feedback divider in 16..90 with the VCO in 600..1000 MHz, goes down by 2
\* per pass emitting a plan, has emitted a plan when the run ends, and the
\* run ends with success status.
C10_ScenarioBRuns ==
    /\ []((PastConditioning \/ pc = "rdiv") =>
              /\ ~DLess(xtal, Dbl(10000000)) /\ ~DLess(Dbl(40000000), xtal)
              /\ clkin_div \in 0..3
              /\ DEq(DMul(xtal, Dbl(2^clkin_div)), xtal_orig))
    /\ [](~ScenBFatal)
    /\ []((pc = "scenB" /\ PlansOf("B") = {}) =>
              /\ BMod(feedback_ms, BInt(2)) = <<>>
              /\ BLeq(BInt(16), feedback_ms) /\ BLeq(feedback_ms, BInt(90))
              /\ ~DLess(DMul(xtal, DblOf(feedback_ms)), Dbl(600000000))
              /\ ~DLess(Dbl(1000000000), DMul(xtal, DblOf(feedback_ms))))
    /\ [][(pc = "scenB" /\ pc' = "scenB") =>
              /\ BAdd(feedback_ms', BInt(2)) = feedback_ms
              /\ Len(out') = Len(out) + 1
              /\ out'[Len(out')].divider = feedback_ms]_vars
    /\ [](status = "EXIT_SUCCESS" => PlansOf("B") # {})
    /\ (pc = "scenB_init") ~> (pc = "exit" /\ status = "EXIT_SUCCESS")

\* a run whose reference was halved twice has ended with success after
\* plans of the second scenario
C10_HalvedTwiceDone ==
    /\ status = "EXIT_SUCCESS"
    /\ clkin_div = 2
    /\ PlansOf("B") # {}

====
